---- MODULE Spec2Model ----
(***************************************************************************)
(* A model of the dynamic-fee transaction data type                        *)
(* (TxInternalDataDynamicFee) of src/cmd/homi/genesis/options.go: its      *)
(* constructors, its signature setters, Equal, Validate, ValidateSignature,*)
(* Execute and its JSON encoding.                                          *)
(*                                                                         *)
(* A Go pointer or slice that may be nil is a sequence of length 0 (nil)   *)
(* or 1 (the pointed-to value): Nil == <<>>, Ptr(x) == <<x>>.              *)
(***************************************************************************)
EXTENDS Integers, Sequences, FiniteSets, TLC

VARIABLES
    t,          \* the instance under operation (a TxInternalDataDynamicFee)
    ctor,       \* the constructor that built t
    signed,     \* whether SetSignature attached a signature to t
    op,         \* the last operation that ran
    err,        \* the error it returned ("" is nil, "panic" a run-time panic)
    values,     \* the caller's map[TxValueKeyType]interface{}
    valuesIn,   \* that map as it was when newTxInternalDataDynamicFeeWithMap was called
    built,      \* whether the last constructor call returned an instance
    args,       \* the caller's arguments of newTxInternalDataDynamicFeeWithValues, as they are now
    argsAtCall, \* those arguments as they were at the call
    u,          \* a second instance, the argument of Equal
    eq,         \* what Equal returned
    chain,      \* what ChainId returned
    sigOk,      \* what ValidateSignature returned
    wire,       \* the JSON document last produced by MarshalJSON
    orig,       \* the instance MarshalJSON encoded, with its history
    stateNonce, \* the sender's nonce in the StateDB
    trace,      \* the calls Execute made, in order
    vmOut,      \* what the VM returned to Execute
    result      \* what Execute returned

vars == <<t, ctor, signed, op, err, values, valuesIn, built, args, argsAtCall,
          u, eq, chain, sigOk, wire, orig, stateNonce, trace, vmOut, result>>

----------------------------------------------------------------------------
(* Bounds of the model *)

MaxAddr == 2
MaxBig == 17
MaxNonce == 1

(* Go values *)

Nil == <<>>
Ptr(x) == <<x>>
IsNil(p) == p = <<>>
Val(p) == p[1]

Addresses == 0..MaxAddr
U64Vals == {0, MaxBig}
Payloads == {<<>>, <<171>>, <<1, 171>>}
Hashes == {3, 200}

\* An access tuple: an address and its storage keys, in order.
AccessTuple(a, keys) == [Address |-> a, StorageKeys |-> keys]
TupleA == AccessTuple(1, <<3>>)
TupleB == AccessTuple(2, <<3, 200>>)
AccessLists == {<<>>, <<TupleA>>, <<TupleA, TupleB>>, <<TupleB, TupleA>>}

\* A recipient pointer: to a cell of the instance's own (own, with its value) or
\* to the caller's address cell args.to (the pointer the caller passed).
OwnAddr(a) == Ptr([own |-> TRUE, val |-> a])
CallerAddr == Ptr([own |-> FALSE, val |-> 0])

----------------------------------------------------------------------------
(* The instance and its constructors *)

newEmptyTxInternalDataDynamicFee ==
    [ChainID |-> Nil, AccountNonce |-> 0, GasTipCap |-> Nil, GasFeeCap |-> Nil,
     GasLimit |-> 0, Recipient |-> Nil, Amount |-> Nil, Payload |-> Nil,
     AccessList |-> Nil, V |-> Nil, R |-> Nil, S |-> Nil, Hash |-> Nil]

newTxInternalDataDynamicFee ==
    [ChainID |-> Ptr(0), AccountNonce |-> 0, GasTipCap |-> Ptr(0), GasFeeCap |-> Ptr(0),
     GasLimit |-> 0, Recipient |-> Nil, Amount |-> Ptr(0), Payload |-> Ptr(<<>>),
     AccessList |-> Ptr(<<>>), V |-> Ptr(0), R |-> Ptr(0), S |-> Ptr(0), Hash |-> Nil]

\* common.CopyBytes: nil for nil, else a fresh slice of the same bytes.
CopyBytes(b) == IF IsNil(b) THEN Nil ELSE Ptr(Val(b))

\* Go's copy(dst, src) on slices: the first min(len(dst), len(src)) elements of
\* dst are overwritten, dst keeps its length.
Min(a, b) == IF a < b THEN a ELSE b
GoCopy(dst, src) ==
    [i \in 1..Len(dst) |-> IF i <= Min(Len(dst), Len(src)) THEN src[i] ELSE dst[i]]

\* big.Int.Set on an allocated cell: the cell takes the value.
BigSet(cell, x) == Ptr(Val(x))

SliceLen(p) == IF IsNil(p) THEN 0 ELSE Len(Val(p))

\* The arguments of newTxInternalDataDynamicFeeWithValues: to, amount, gasTipCap,
\* gasFeeCap and chainID are pointers, data and accessList slices.
ArgSets ==
    [nonce : U64Vals, to : {Nil} \cup {Ptr(a) : a \in Addresses},
     amount : {Nil, Ptr(1)}, gasLimit : {MaxBig},
     gasTipCap : {Nil, Ptr(1)}, gasFeeCap : {Ptr(MaxBig)},
     data : {Nil, Ptr(<<>>), Ptr(<<1, 171>>)},
     accessList : {Nil} \cup {Ptr(l) : l \in AccessLists},
     chainID : {Nil, Ptr(1)}]

NoArgs ==
    [nonce |-> 0, to |-> Nil, amount |-> Nil, gasLimit |-> 0, gasTipCap |-> Nil,
     gasFeeCap |-> Nil, data |-> Nil, accessList |-> Nil, chainID |-> Nil]

\* The access-list step of the constructor (lines 292-294): copy into the
\* zeroed instance's AccessList{}.
ValuesAccessList(d, a) ==
    IF ~IsNil(a.accessList)
    THEN Ptr(GoCopy(Val(d.AccessList), Val(a.accessList)))
    ELSE d.AccessList

\* The recipient step (line 273): the instance keeps the caller's pointer.
ValuesRecipient(a) == IF IsNil(a.to) THEN Nil ELSE CallerAddr

newTxInternalDataDynamicFeeWithValues(a) ==
    LET d == newTxInternalDataDynamicFee IN
    [d EXCEPT
        !.AccountNonce = a.nonce,
        !.Recipient = ValuesRecipient(a),
        !.GasLimit = a.gasLimit,
        !.Payload = IF SliceLen(a.data) > 0 THEN CopyBytes(a.data) ELSE d.Payload,
        !.Amount = IF ~IsNil(a.amount) THEN BigSet(d.Amount, a.amount) ELSE d.Amount,
        !.GasTipCap = IF ~IsNil(a.gasTipCap) THEN BigSet(d.GasTipCap, a.gasTipCap)
                      ELSE d.GasTipCap,
        !.GasFeeCap = IF ~IsNil(a.gasFeeCap) THEN BigSet(d.GasFeeCap, a.gasFeeCap)
                      ELSE d.GasFeeCap,
        !.AccessList = ValuesAccessList(d, a),
        !.ChainID = IF ~IsNil(a.chainID) THEN BigSet(d.ChainID, a.chainID)
                    ELSE d.ChainID]

\* The address a recipient pointer points at, Nil for a nil pointer: the caller's
\* cell when the instance holds the caller's pointer.
RecipientOf(d, a) ==
    IF IsNil(d.Recipient) THEN Nil
    ELSE IF Val(d.Recipient).own THEN Ptr(Val(d.Recipient).val)
    ELSE a.to

----------------------------------------------------------------------------
(* newTxInternalDataDynamicFeeWithMap *)

\* The required keys, in the order the constructor checks them.
KeyOrderTipFirst ==
    <<"nonce", "to", "amount", "data", "gasLimit", "gasTipCap", "gasFeeCap",
      "accessList", "chainID">>

KeyOrder ==
    <<"nonce", "to", "amount", "data", "gasLimit", "gasFeeCap", "gasTipCap",
      "accessList", "chainID">>

RequiredKeys == {KeyOrder[i] : i \in 1..Len(KeyOrder)}

\* The Go type each key's value is asserted to have.
KeyType(k) ==
    CASE k = "nonce" -> "uint64"
      [] k = "to" -> "address"
      [] k = "amount" -> "bigint"
      [] k = "data" -> "bytes"
      [] k = "gasLimit" -> "uint64"
      [] k = "gasFeeCap" -> "bigint"
      [] k = "gasTipCap" -> "bigint"
      [] k = "accessList" -> "accesslist"
      [] k = "chainID" -> "bigint"

\* The error returned when a key's assertion fails.
KeyErr(k) ==
    CASE k = "nonce" -> "errValueKeyNonceMustUint64"
      [] k = "to" -> "errValueKeyToMustAddress"
      [] k = "amount" -> "errValueKeyAmountMustBigInt"
      [] k = "data" -> "errValueKeyDataMustByteSlice"
      [] k = "gasLimit" -> "errValueKeyGasLimitMustUint64"
      [] k = "gasFeeCap" -> "errValueKeyGasFeeCapMustBigInt"
      [] k = "gasTipCap" -> "errValueKeyGasTipCapMustBigInt"
      [] k = "accessList" -> "errValueKeyAccessListInvalid"
      [] k = "chainID" -> "errValueKeyChainIDInvalid"

\* make(AccessList, n): n zero tuples.
MakeAccessList(n) == [i \in 1..n |-> AccessTuple(0, <<>>)]

\* The assignment of a key whose assertion succeeded.
MapAssign(d, k, v) ==
    CASE k = "nonce" -> [d EXCEPT !.AccountNonce = v]
      [] k = "to" -> [d EXCEPT !.Recipient = OwnAddr(v)]
      [] k = "amount" -> [d EXCEPT !.Amount = BigSet(d.Amount, v)]
      [] k = "data" -> [d EXCEPT !.Payload = CopyBytes(v)]
      [] k = "gasLimit" -> [d EXCEPT !.GasLimit = v]
      [] k = "gasFeeCap" -> [d EXCEPT !.GasFeeCap = BigSet(d.GasFeeCap, v)]
      [] k = "gasTipCap" -> [d EXCEPT !.GasTipCap = BigSet(d.GasTipCap, v)]
      [] k = "accessList" ->
            [d EXCEPT !.AccessList = Ptr(GoCopy(MakeAccessList(SliceLen(v)),
                                                IF IsNil(v) THEN <<>> ELSE Val(v)))]
      [] k = "chainID" -> [d EXCEPT !.ChainID = BigSet(d.ChainID, v)]

\* delete(values, k)
MapDelete(m, k) == [x \in DOMAIN m \ {k} |-> m[x]]

\* v, ok := values[k].(T)
TypeAssertOk(m, k) == k \in DOMAIN m /\ m[k].type = KeyType(k)

\* The check after the last key (lines 368-373).
RemainsCheckMissing(m) == ""

RemainsCheck(m) == IF Cardinality(DOMAIN m) # 0 THEN "errUndefinedKeyRemains" ELSE ""

\* The constructor from its i-th key on: the instance (Nil when an error is
\* returned), the error, and the caller's map as the call leaves it.
RECURSIVE WithMapFrom(_, _, _)
WithMapFrom(i, d, m) ==
    IF i > Len(KeyOrder)
    THEN IF RemainsCheck(m) # ""
         THEN [inst |-> Nil, err |-> RemainsCheck(m), values |-> m]
         ELSE [inst |-> Ptr(d), err |-> "", values |-> m]
    ELSE LET k == KeyOrder[i] IN
         IF TypeAssertOk(m, k)
         THEN WithMapFrom(i + 1, MapAssign(d, k, m[k].val), MapDelete(m, k))
         ELSE [inst |-> Nil, err |-> KeyErr(k), values |-> m]

newTxInternalDataDynamicFeeWithMap(m) == WithMapFrom(1, newTxInternalDataDynamicFee, m)


\* A map value: its dynamic Go type and the value.
MapValue(ty, v) == [type |-> ty, val |-> v]

\* A value of the type key k requires; variant picks among the sample values
\* (variant 2 holds a nil byte slice and a nil access list).
OkValue(k, variant) ==
    CASE k = "nonce" -> MapValue("uint64", MaxBig)
      [] k = "to" -> MapValue("address", variant)
      [] k = "amount" -> MapValue("bigint", Ptr(1))
      [] k = "data" -> MapValue("bytes", IF variant = 1 THEN Ptr(<<1, 171>>) ELSE Nil)
      [] k = "gasLimit" -> MapValue("uint64", 1)
      [] k = "gasFeeCap" -> MapValue("bigint", Ptr(MaxBig))
      [] k = "gasTipCap" -> MapValue("bigint", Ptr(variant))
      [] k = "accessList" ->
            MapValue("accesslist", IF variant = 1 THEN Ptr(<<TupleB, TupleA>>) ELSE Nil)
      [] k = "chainID" -> MapValue("bigint", Ptr(MaxBig))

\* A value of a type key k does not accept (a Go string), and the value of an
\* unrecognized key.
WrongValue(k) == [OkValue(k, 1) EXCEPT !.type = "string"]
ExtraValue == MapValue("string", 0)

\* The caller's maps: every required key is well typed, missing or mistyped, and
\* an unrecognized key "foo" may be present.
MapOf(status, extra, variant) ==
    [k \in {x \in RequiredKeys : status[x] # "missing"} \cup extra |->
        IF k \in RequiredKeys
        THEN IF status[k] = "ok" THEN OkValue(k, variant) ELSE WrongValue(k)
        ELSE ExtraValue]

MapInputs ==
    {MapOf(st, ex, va) :
        st \in [RequiredKeys -> {"ok", "missing", "wrong"}],
        ex \in {{}, {"foo"}},
        va \in {1, 2}}

\* The maps the instance's life draws from: complete ones, one with an
\* unrecognized key, one without a nonce.
SampleMaps ==
    {MapOf([k \in RequiredKeys |-> "ok"], {}, 1),
     MapOf([k \in RequiredKeys |-> "ok"], {}, 2),
     MapOf([k \in RequiredKeys |-> "ok"], {"foo"}, 1),
     MapOf([k \in RequiredKeys |-> IF k = "nonce" THEN "missing" ELSE "ok"], {}, 1)}


----------------------------------------------------------------------------
(* The parts of the state an operation leaves alone *)

instVars == <<t, ctor, signed>>
mapVars == <<values, valuesIn, built>>
argVars == <<args, argsAtCall>>
equalVars == <<u, eq>>
jsonVars == <<wire, orig>>
execVars == <<stateNonce, trace, vmOut, result>>

\* What the VM returns: output, gas used, error.
VMOut(ret, usedGas, e) == [ret |-> ret, usedGas |-> usedGas, err |-> e]
NoOut == VMOut(Nil, 0, "")

\* The results of an earlier call are out of scope once another operation runs:
\* the caller's map, the values it passed, what Execute did.
EmptyMap == [k \in {} |-> ExtraValue]
ForgetMap == values' = EmptyMap /\ valuesIn' = EmptyMap /\ built' = TRUE
ForgetArgs == args' = NoArgs /\ argsAtCall' = NoArgs
ForgetExec == trace' = <<>> /\ vmOut' = NoOut /\ result' = NoOut /\ UNCHANGED stateNonce
others == <<equalVars, sigOk, jsonVars, chain>>

----------------------------------------------------------------------------
(* The JSON encoding: hexutil's texts are sequences of hex digits (the text *)
(* after the "0x" prefix), a JSON null or an absent key is Nil.             *)

HexBase == 16

\* hexutil.EncodeBig, hexutil.EncodeUint64: the digits, most significant
\* first, without leading zeros; zero is "0x0".
RECURSIVE HexDigits(_)
HexDigits(n) ==
    IF n < HexBase THEN <<n>> ELSE Append(HexDigits(n \div HexBase), n % HexBase)

\* The number a digit sequence denotes.
RECURSIVE HexValue(_)
HexValue(ds) ==
    IF Len(ds) = 0 THEN 0
    ELSE HexValue(SubSeq(ds, 1, Len(ds) - 1)) * HexBase + ds[Len(ds)]

\* hexutil's checkNumberText: a number has a digit and no leading zero.
ValidNumber(ds) == Len(ds) > 0 /\ (Len(ds) > 1 => ds[1] # 0)

\* hexutil.Bytes: two digits a byte.
RECURSIVE EncodeBytes(_)
EncodeBytes(bs) ==
    IF Len(bs) = 0 THEN <<>>
    ELSE <<bs[1] \div HexBase, bs[1] % HexBase>> \o EncodeBytes(Tail(bs))

RECURSIVE DecodeBytes(_)
DecodeBytes(ds) ==
    IF Len(ds) < 2 THEN <<>>
    ELSE <<ds[1] * HexBase + ds[2]>> \o DecodeBytes(SubSeq(ds, 3, Len(ds)))

ValidBytes(ds) == Len(ds) % 2 = 0

\* common.Address, common.Hash: fixed-width hex (two digits in the model).
EncodeFixed(x) == <<x \div HexBase, x % HexBase>>
DecodeFixed(ds) == ds[1] * HexBase + ds[2]

\* (*hexutil.Big)(x): null for a nil pointer.
EncodeBigPtr(p) == IF IsNil(p) THEN Nil ELSE Ptr(HexDigits(Val(p)))
DecodeBigPtr(p) == IF IsNil(p) THEN Nil ELSE Ptr(HexValue(Val(p)))
ValidBigPtr(p) == IsNil(p) \/ ValidNumber(Val(p))

EncodeFixedPtr(p) == IF IsNil(p) THEN Nil ELSE Ptr(EncodeFixed(Val(p)))
DecodeFixedPtr(p) == IF IsNil(p) THEN Nil ELSE Ptr(DecodeFixed(Val(p)))

EncodeTuple(tu) ==
    [address |-> EncodeFixed(tu.Address),
     storageKeys |-> [i \in 1..Len(tu.StorageKeys) |-> EncodeFixed(tu.StorageKeys[i])]]
DecodeTuple(j) ==
    AccessTuple(DecodeFixed(j.address),
                [i \in 1..Len(j.storageKeys) |-> DecodeFixed(j.storageKeys[i])])

\* An AccessList: null for a nil slice, else its tuples in order.
EncodeAccessList(p) ==
    IF IsNil(p) THEN Nil ELSE Ptr([i \in 1..Len(Val(p)) |-> EncodeTuple(Val(p)[i])])
DecodeAccessList(p) ==
    IF IsNil(p) THEN Nil ELSE Ptr([i \in 1..Len(Val(p)) |-> DecodeTuple(Val(p)[i])])

\* TxSignatureJSON
EncodeSignature(v, r, s) ==
    [V |-> EncodeBigPtr(v), R |-> EncodeBigPtr(r), S |-> EncodeBigPtr(s)]

\* MarshalJSON: the TxInternalDataDynamicFeeJSON of instance d (a: the caller's
\* cells, for a recipient pointer the caller passed). A nil Payload is encoded
\* by hexutil.Bytes as the empty text "0x".
MarshalJSONTipAsFee(d, a) ==
    [typeInt |-> "TxTypeDynamicFee",
     type |-> "TxTypeDynamicFee",
     nonce |-> Ptr(HexDigits(d.AccountNonce)),
     maxPriorityFeePerGas |-> EncodeBigPtr(d.GasFeeCap),
     maxFeePerGas |-> EncodeBigPtr(d.GasFeeCap),
     gas |-> Ptr(HexDigits(d.GasLimit)),
     to |-> EncodeFixedPtr(RecipientOf(d, a)),
     value |-> EncodeBigPtr(d.Amount),
     input |-> Ptr(EncodeBytes(IF IsNil(d.Payload) THEN <<>> ELSE Val(d.Payload))),
     signatures |-> <<EncodeSignature(d.V, d.R, d.S)>>,
     accessList |-> EncodeAccessList(d.AccessList),
     chainId |-> EncodeBigPtr(d.ChainID),
     hash |-> EncodeFixedPtr(d.Hash)]

MarshalJSON(d, a) ==
    [typeInt |-> "TxTypeDynamicFee",
     type |-> "TxTypeDynamicFee",
     nonce |-> Ptr(HexDigits(d.AccountNonce)),
     maxPriorityFeePerGas |-> EncodeBigPtr(d.GasTipCap),
     maxFeePerGas |-> EncodeBigPtr(d.GasFeeCap),
     gas |-> Ptr(HexDigits(d.GasLimit)),
     to |-> EncodeFixedPtr(RecipientOf(d, a)),
     value |-> EncodeBigPtr(d.Amount),
     input |-> Ptr(EncodeBytes(IF IsNil(d.Payload) THEN <<>> ELSE Val(d.Payload))),
     signatures |-> <<EncodeSignature(d.V, d.R, d.S)>>,
     accessList |-> EncodeAccessList(d.AccessList),
     chainId |-> EncodeBigPtr(d.ChainID),
     hash |-> EncodeFixedPtr(d.Hash)]

\* json.Unmarshal into the JSON struct fails on a text hexutil rejects.
ValidDoc(doc) ==
    /\ ValidBigPtr(doc.nonce) /\ ValidBigPtr(doc.gas)
    /\ ValidBigPtr(doc.maxPriorityFeePerGas) /\ ValidBigPtr(doc.maxFeePerGas)
    /\ ValidBigPtr(doc.value) /\ ValidBigPtr(doc.chainId)
    /\ (IsNil(doc.input) \/ ValidBytes(Val(doc.input)))
    /\ \A i \in 1..Len(doc.signatures) :
          /\ ValidBigPtr(doc.signatures[i].V)
          /\ ValidBigPtr(doc.signatures[i].R)
          /\ ValidBigPtr(doc.signatures[i].S)

\* hexutil.Uint64: an absent key leaves the field 0.
DecodeUint64(p) == IF IsNil(p) THEN 0 ELSE HexValue(Val(p))

\* UnmarshalJSON on instance d: the instance it leaves and the error. A decoding
\* error returns before any assignment; without a signatures element the
\* index js.TxSignatures[0] panics after the fields before it were assigned.
UnmarshalJSON(d, doc) ==
    IF ~ValidDoc(doc) THEN [t |-> d, err |-> "json"]
    ELSE LET d1 == [d EXCEPT
                     !.AccountNonce = DecodeUint64(doc.nonce),
                     !.GasTipCap = DecodeBigPtr(doc.maxPriorityFeePerGas),
                     !.GasFeeCap = DecodeBigPtr(doc.maxFeePerGas),
                     !.GasLimit = DecodeUint64(doc.gas),
                     !.Recipient = IF IsNil(doc.to) THEN Nil
                                   ELSE OwnAddr(DecodeFixed(Val(doc.to))),
                     !.Amount = DecodeBigPtr(doc.value),
                     !.Payload = IF IsNil(doc.input) THEN Nil
                                 ELSE Ptr(DecodeBytes(Val(doc.input))),
                     !.AccessList = DecodeAccessList(doc.accessList)]
         IN IF Len(doc.signatures) = 0 THEN [t |-> d1, err |-> "panic"]
            ELSE [t |-> [d1 EXCEPT
                           !.V = DecodeBigPtr(doc.signatures[1].V),
                           !.R = DecodeBigPtr(doc.signatures[1].R),
                           !.S = DecodeBigPtr(doc.signatures[1].S),
                           !.Hash = DecodeFixedPtr(doc.hash),
                           !.ChainID = DecodeBigPtr(doc.chainId)],
                  err |-> ""]

\* A document without one of its keys.
DropKeys == {"maxFeePerGas", "value", "input", "chainId", "signatures"}
DropKey(doc, k) ==
    [x \in DOMAIN doc |->
        IF x # k THEN doc[x] ELSE Nil]

\* A document whose value text has a leading zero, which hexutil rejects.
BadValue(doc) == [doc EXCEPT !.value = Ptr(<<0, 1>>)]


----------------------------------------------------------------------------
(* Signature, equality, validation, execution *)

\* A TxSignature: V, R, S are *big.Int.
Signature(v, r, s) == [V |-> Ptr(v), R |-> Ptr(r), S |-> Ptr(s)]

\* SetSignature (lines 430-438): anything but one signature ends in
\* logger.Crit, which stops the process ("fatal"); else V, R, S are taken from
\* the one signature.
SetSignatureAlsoChainID(d, sigs) ==
    IF Len(sigs) # 1 THEN [t |-> d, err |-> "fatal"]
    ELSE [t |-> [d EXCEPT !.V = sigs[1].V, !.R = sigs[1].R, !.S = sigs[1].S,
                          !.ChainID = Nil],
          err |-> ""]

SetSignature(d, sigs) ==
    IF Len(sigs) # 1 THEN [t |-> d, err |-> "fatal"]
    ELSE [t |-> [d EXCEPT !.V = sigs[1].V, !.R = sigs[1].R, !.S = sigs[1].S],
          err |-> ""]

SetHash(d, hash) == [d EXCEPT !.Hash = hash]

setSignatureValues(d, chainID, v, r, s) ==
    [d EXCEPT !.ChainID = chainID, !.V = v, !.R = r, !.S = s]

\* The order of the curve and its half, scaled down.
secp256k1N == 7
secp256k1halfN == secp256k1N \div 2

\* crypto.ValidateSignatureValues: r and s in 1..N-1, s not above the half
\* order, v a recovery id (0 or 1).
ValidateSignatureValues(v, r, s, homestead) ==
    /\ r >= 1 /\ s >= 1
    /\ s <= secp256k1halfN
    /\ r < secp256k1N /\ s < secp256k1N
    /\ (v = 0 \/ v = 1)

\* byte(x): the low 8 bits of a uint64.
ByteWidth == 256
ByteOf(x) == x % ByteWidth

\* The recovery id ValidateSignature hands on (line 445).
RecoveryId(d) == ByteOf(Val(d.V))

\* ValidateSignature (lines 444-447): "true", "false", or "panic" on a nil V, R or S.
ValidateSignature(d) ==
    IF IsNil(d.V) \/ IsNil(d.R) \/ IsNil(d.S) THEN "panic"
    ELSE IF ValidateSignatureValues(RecoveryId(d), Val(d.R), Val(d.S), FALSE)
         THEN "true" ELSE "false"

\* What ChainId returned: nothing yet, a *big.Int, or a run-time panic.
ChainOut(called, val, panic) == [called |-> called, val |-> val, panic |-> panic]
NoChain == ChainOut(FALSE, Nil, FALSE)

\* uint64 arithmetic wraps; the word is narrowed to 30 bits, which every value
\* drawn here fits in.
Uint64Mod == 2^30

\* deriveChainId: the legacy recovery values 27 and 28 carry no chain id, any
\* other v carries (v - 35) / 2 in uint64 arithmetic.
deriveChainId(v) ==
    IF v \in {27, 28} THEN 0 ELSE ((v - 35) % Uint64Mod) \div 2

\* ChainId (lines 469-474): the ChainID field when it is not nil, else the
\* chain id derived from V; deriveChainId dereferences V.
ChainId(d) ==
    IF ~IsNil(d.ChainID) THEN ChainOut(TRUE, d.ChainID, FALSE)
    ELSE IF IsNil(d.V) THEN ChainOut(TRUE, Nil, TRUE)
    ELSE ChainOut(TRUE, Ptr(deriveChainId(Val(d.V))), FALSE)

\* x.Cmp(y) == 0 on *big.Int: the same pointer compares equal, one nil pointer
\* is dereferenced.
BigCmpEq(x, y) ==
    IF IsNil(x) /\ IsNil(y) THEN "true"
    ELSE IF IsNil(x) \/ IsNil(y) THEN "panic"
    ELSE IF Val(x) = Val(y) THEN "true" ELSE "false"

Bool(b) == IF b THEN "true" ELSE "false"

\* equalRecipient: both nil, or both set to the same address.
equalRecipient(x, y) == Bool(x = y)

\* reflect.DeepEqual on two AccessLists: a nil slice differs from an empty one.
DeepEqual(x, y) == Bool(x = y)

\* The first conjunct of a && chain that is not true decides it.
RECURSIVE AndChain(_)
AndChain(cs) ==
    IF Len(cs) = 0 THEN "true"
    ELSE IF cs[1] # "true" THEN cs[1]
    ELSE AndChain(Tail(cs))

\* Equal (lines 476-494); a and b resolve the two instances' recipient pointers.
Equal(d, o, a) ==
    AndChain(<<BigCmpEq(d.ChainID, o.ChainID),
               Bool(d.AccountNonce = o.AccountNonce),
               BigCmpEq(d.GasFeeCap, o.GasFeeCap),
               BigCmpEq(d.GasTipCap, o.GasTipCap),
               Bool(d.GasLimit = o.GasLimit),
               equalRecipient(RecipientOf(d, a), RecipientOf(o, a)),
               BigCmpEq(d.Amount, o.Amount),
               DeepEqual(d.AccessList, o.AccessList),
               BigCmpEq(d.V, o.V),
               BigCmpEq(d.R, o.R),
               BigCmpEq(d.S, o.S)>>)

\* common.IsPrecompiledContractAddress: the reserved addresses are 1 up to the
\* last precompiled address; the zero address is not one.
LastPrecompiled == 1
IsPrecompiledContractAddress(a) == a >= 1 /\ a <= LastPrecompiled

ValidateMutableValue(d) == ""

\* Validate (lines 582-589)
ValidateSkipsCheck(d, a) == ValidateMutableValue(d)

Validate(d, a) ==
    IF ~IsNil(RecipientOf(d, a)) /\ IsPrecompiledContractAddress(Val(RecipientOf(d, a)))
    THEN "ErrPrecompiledContractAddress"
    ELSE ValidateMutableValue(d)

\* A call Execute makes on the StateDB or the VM.
Event(fn, to, input, gas, value) ==
    [fn |-> fn, to |-> to, input |-> input, gas |-> gas, value |-> value]

\* Execute (lines 605-622): the calls it makes, in order.
ExecuteCallsIncAfter(d, a, gas, value) ==
    IF IsNil(RecipientOf(d, a))
    THEN <<Event("Create", Nil, d.Payload, gas, value)>>
    ELSE <<Event("Call", RecipientOf(d, a), d.Payload, gas, value),
           Event("IncNonce", Nil, Nil, 0, Nil)>>

ExecuteCalls(d, a, gas, value) ==
    IF IsNil(RecipientOf(d, a))
    THEN <<Event("Create", Nil, d.Payload, gas, value)>>
    ELSE <<Event("IncNonce", Nil, Nil, 0, Nil),
           Event("Call", RecipientOf(d, a), d.Payload, gas, value)>>

\* What Execute returns, given what the VM returned (line 621).
ExecuteReturn(out) == VMOut(out.ret, out.usedGas, out.err)


----------------------------------------------------------------------------
(* The life of one instance *)

\* logger.Crit ended the process.
Running == err # "fatal"

\* The inputs the operations draw from.
SampleArgs ==
    {[nonce |-> MaxBig, to |-> Ptr(a), amount |-> Ptr(1), gasLimit |-> MaxBig,
      gasTipCap |-> Ptr(1), gasFeeCap |-> Ptr(MaxBig), data |-> Ptr(<<1, 171>>),
      accessList |-> Ptr(<<TupleA, TupleB>>), chainID |-> Ptr(1)] :
        a \in {LastPrecompiled, MaxAddr}}
    \cup {NoArgs}
SampleSignatures == {<<Signature(0, 1, 1)>>, <<Signature(28, 2, 3)>>, <<>>,
                     <<Signature(0, 1, 1), Signature(28, 2, 3)>>}
SampleHashes == {Nil, Ptr(200)}
SampleDocs ==
    LET sample == [newTxInternalDataDynamicFeeWithValues(
                       [NoArgs EXCEPT !.amount = Ptr(MaxBig), !.chainID = Ptr(1),
                                      !.data = Ptr(<<171>>)])
                   EXCEPT !.Recipient = OwnAddr(MaxAddr), !.V = Ptr(1), !.R = Ptr(2),
                          !.S = Ptr(3), !.Hash = Ptr(3)]
        doc == MarshalJSON(sample, NoArgs)
    IN {doc, BadValue(doc)} \cup {DropKey(doc, k) : k \in DropKeys}
VMOutcomes == {VMOut(Ptr(<<7>>), 1, ""), VMOut(Nil, MaxBig, "ErrExecutionReverted")}

Constructed(inst, c) ==
    /\ t' = inst
    /\ ctor' = c
    /\ signed' = FALSE
    /\ err' = ""

NewEmpty ==
    /\ Running
    /\ Constructed(newEmptyTxInternalDataDynamicFee, "empty")
    /\ op' = "newEmpty"
    /\ ForgetMap /\ ForgetArgs /\ ForgetExec
    /\ UNCHANGED others

NewZeroed ==
    /\ Running
    /\ Constructed(newTxInternalDataDynamicFee, "zeroed")
    /\ op' = "new"
    /\ ForgetMap /\ ForgetArgs /\ ForgetExec
    /\ UNCHANGED others

\* The caller passes its values to newTxInternalDataDynamicFeeWithValues.
NewWithValues ==
    /\ Running
    /\ \E a \in SampleArgs :
          /\ args' = a
          /\ argsAtCall' = a
          /\ Constructed(newTxInternalDataDynamicFeeWithValues(a), "values")
    /\ op' = "newWithValues"
    /\ ForgetMap /\ ForgetExec
    /\ UNCHANGED others

\* The caller fills a map and passes it to newTxInternalDataDynamicFeeWithMap;
\* when the call returns an error the caller keeps the instance it had.
NewFromSampleMap ==
    /\ Running
    /\ \E m \in SampleMaps :
          LET r == newTxInternalDataDynamicFeeWithMap(m) IN
          /\ valuesIn' = m
          /\ values' = r.values
          /\ err' = r.err
          /\ built' = ~IsNil(r.inst)
          /\ t' = IF IsNil(r.inst) THEN t ELSE Val(r.inst)
          /\ ctor' = IF IsNil(r.inst) THEN ctor ELSE "map"
          /\ signed' = IF IsNil(r.inst) THEN signed ELSE FALSE
          /\ IF IsNil(r.inst) THEN UNCHANGED argVars ELSE ForgetArgs
    /\ op' = "newWithMap"
    /\ ForgetExec
    /\ UNCHANGED others

DoSetSignature ==
    /\ Running
    /\ \E sigs \in SampleSignatures :
          LET r == SetSignature(t, sigs) IN
          /\ t' = r.t
          /\ err' = r.err
          /\ signed' = (signed \/ r.err = "")
    /\ op' = "SetSignature"
    /\ ForgetMap /\ ForgetExec
    /\ UNCHANGED <<ctor, argVars, others>>

DoSetHash ==
    /\ Running
    /\ \E h \in SampleHashes : t' = SetHash(t, h)
    /\ op' = "SetHash"
    /\ err' = ""
    /\ ForgetMap /\ ForgetExec
    /\ UNCHANGED <<ctor, signed, argVars, others>>

DoSetSignatureValues ==
    /\ Running
    /\ \E x \in {<<Nil, Signature(1, 2, 2)>>, <<Ptr(MaxBig), Signature(27, 1, 3)>>} :
          t' = setSignatureValues(t, x[1], x[2].V, x[2].R, x[2].S)
    /\ op' = "setSignatureValues"
    /\ err' = ""
    /\ ForgetMap /\ ForgetExec
    /\ UNCHANGED <<ctor, signed, argVars, others>>

\* UnmarshalJSON of a document received from elsewhere.
DoUnmarshalSample ==
    /\ Running
    /\ \E doc \in SampleDocs :
          LET r == UnmarshalJSON(t, doc) IN
          /\ t' = r.t
          /\ err' = r.err
    /\ op' = "UnmarshalJSON"
    /\ ForgetMap /\ ForgetExec
    /\ UNCHANGED <<ctor, signed, argVars, others>>

DoValidate ==
    /\ Running
    /\ err' = Validate(t, args)
    /\ op' = "Validate"
    /\ ForgetMap /\ ForgetExec
    /\ UNCHANGED <<instVars, argVars, others>>

\* Execute: the StateDB's IncNonce and the VM's Create both raise the sender's
\* nonce; the VM answers as it likes.
DoExecute ==
    /\ Running
    /\ stateNonce < MaxNonce
    /\ \E out \in VMOutcomes :
          /\ vmOut' = out
          /\ result' = ExecuteReturn(out)
          /\ err' = ExecuteReturn(out).err
    /\ trace' = ExecuteCalls(t, args, MaxBig, Ptr(1))
    /\ stateNonce' = stateNonce + 1
    /\ op' = "Execute"
    /\ ForgetMap
    /\ UNCHANGED <<instVars, argVars, others>>

NoDoc == MarshalJSON(newEmptyTxInternalDataDynamicFee, NoArgs)
NoOrig == [t |-> newEmptyTxInternalDataDynamicFee, to |-> Nil, ctor |-> "none"]

\* The state every specification starts from, but for the parts it draws.
InitIdle ==
    /\ signed = FALSE
    /\ err = ""
    /\ u = newTxInternalDataDynamicFee /\ eq = "none"
    /\ sigOk = "none"
    /\ chain = NoChain
    /\ wire = NoDoc /\ orig = NoOrig
    /\ stateNonce = 0 /\ trace = <<>> /\ vmOut = NoOut /\ result = NoOut

Init ==
    /\ t = newEmptyTxInternalDataDynamicFee
    /\ ctor = "empty"
    /\ op = "newEmpty"
    /\ values = EmptyMap /\ valuesIn = EmptyMap /\ built = TRUE
    /\ args = NoArgs /\ argsAtCall = NoArgs
    /\ InitIdle

Next ==
    \/ NewEmpty
    \/ NewZeroed
    \/ NewWithValues
    \/ NewFromSampleMap
    \/ DoSetSignature
    \/ DoSetHash
    \/ DoSetSignatureValues
    \/ DoUnmarshalSample
    \/ DoValidate
    \/ DoExecute

Spec == Init /\ [][Next]_vars

----------------------------------------------------------------------------
(* The caller of newTxInternalDataDynamicFeeWithMap *)

\* The constructor runs on the caller's map: it returns an instance or an error,
\* and the map keeps what the call did not delete.
NewWithMap ==
    LET r == newTxInternalDataDynamicFeeWithMap(values) IN
    /\ valuesIn' = values
    /\ values' = r.values
    /\ err' = r.err
    /\ built' = ~IsNil(r.inst)
    /\ t' = IF IsNil(r.inst) THEN t ELSE Val(r.inst)
    /\ ctor' = IF IsNil(r.inst) THEN ctor ELSE "map"
    /\ signed' = FALSE
    /\ op' = "newWithMap"
    /\ UNCHANGED <<argVars, others, execVars>>

\* newTxInternalDataDynamicFeeWithMap on every map of MapInputs; a caller may
\* call again with what the failed call left in its map.
InitMap ==
    /\ values \in MapInputs
    /\ valuesIn = EmptyMap
    /\ built = FALSE
    /\ t = newEmptyTxInternalDataDynamicFee
    /\ ctor = "none"
    /\ op = "caller"
    /\ args = NoArgs /\ argsAtCall = NoArgs
    /\ InitIdle

NextMap == NewWithMap

SpecMap == InitMap /\ [][NextMap]_vars

\* What the claims about the map constructor read: the required keys in the
\* order the specification gives, and each key's error.
SpecKeyOrder ==
    <<"nonce", "to", "amount", "data", "gasLimit", "gasFeeCap", "gasTipCap",
      "accessList", "chainID">>
SpecKeyErr ==
    <<"errValueKeyNonceMustUint64", "errValueKeyToMustAddress",
      "errValueKeyAmountMustBigInt", "errValueKeyDataMustByteSlice",
      "errValueKeyGasLimitMustUint64", "errValueKeyGasFeeCapMustBigInt",
      "errValueKeyGasTipCapMustBigInt", "errValueKeyAccessListInvalid",
      "errValueKeyChainIDInvalid">>
SpecKeyType ==
    <<"uint64", "address", "bigint", "bytes", "uint64", "bigint", "bigint",
      "accesslist", "bigint">>

\* Key i of the order is missing from map m or has the wrong type.
KeyFails(m, i) ==
    ~(SpecKeyOrder[i] \in DOMAIN m /\ m[SpecKeyOrder[i]].type = SpecKeyType[i])
FailingKeys(m) == {i \in 1..Len(SpecKeyOrder) : KeyFails(m, i)}
FirstFailing(m) == CHOOSE i \in FailingKeys(m) : \A j \in FailingKeys(m) : i <= j
KeysBefore(i) == {SpecKeyOrder[j] : j \in 1..(i - 1)}

Bytes(p) == IF IsNil(p) THEN <<>> ELSE Val(p)

----------------------------------------------------------------------------
(* Equal on two instances *)

Fields == {"ChainID", "AccountNonce", "GasTipCap", "GasFeeCap", "GasLimit",
           "Recipient", "Amount", "Payload", "AccessList", "V", "R", "S", "Hash"}

\* The values a field of a constructed instance takes.
FieldValues(f) ==
    CASE f \in {"ChainID", "GasTipCap", "GasFeeCap", "Amount"} -> {Ptr(0), Ptr(MaxBig)}
      [] f \in {"V", "R", "S"} -> {Ptr(0), Ptr(1)}
      [] f \in {"AccountNonce", "GasLimit"} -> U64Vals
      [] f = "Recipient" -> {Nil} \cup {OwnAddr(a) : a \in Addresses}
      [] f = "Payload" -> {Ptr(b) : b \in Payloads}
      [] f = "AccessList" -> {Ptr(l) : l \in AccessLists}
      [] f = "Hash" -> {Nil} \cup {Ptr(h) : h \in Hashes}

\* The instances that differ from d in at most one field.
Variations(d) == {[d EXCEPT ![f] = x] : <<f, x>> \in UNION {{<<g, y>> : y \in FieldValues(g)} : g \in Fields}}

EqualBases ==
    {newTxInternalDataDynamicFee,
     [newTxInternalDataDynamicFee EXCEPT
        !.ChainID = Ptr(MaxBig), !.AccountNonce = MaxBig, !.Recipient = OwnAddr(1),
        !.Payload = Ptr(<<171>>), !.AccessList = Ptr(<<TupleA, TupleB>>),
        !.V = Ptr(1), !.R = Ptr(1), !.S = Ptr(1), !.Hash = Ptr(3)]}

InitEqual ==
    /\ t \in EqualBases
    /\ u \in UNION {Variations(d) : d \in Variations(t)}
    /\ eq = "none"
    /\ ctor = "zeroed"
    /\ op = "caller"
    /\ values = EmptyMap /\ valuesIn = EmptyMap /\ built = TRUE
    /\ args = NoArgs /\ argsAtCall = NoArgs
    /\ signed = FALSE /\ err = ""
    /\ sigOk = "none"
    /\ chain = NoChain
    /\ wire = NoDoc /\ orig = NoOrig
    /\ stateNonce = 0 /\ trace = <<>> /\ vmOut = NoOut /\ result = NoOut

DoEqual ==
    /\ eq' = Equal(t, u, args)
    /\ op' = "Equal"
    /\ UNCHANGED <<instVars, err, mapVars, argVars, u, sigOk, jsonVars, execVars, chain>>

NextEqual == DoEqual

SpecEqual == InitEqual /\ [][NextEqual]_vars

\* Every field but the cached hash is the same in d and o (a: the caller's
\* cells); the payloads are compared as byte sequences.
SameButHash(d, o, a) ==
    /\ d.ChainID = o.ChainID
    /\ d.AccountNonce = o.AccountNonce
    /\ d.GasTipCap = o.GasTipCap
    /\ d.GasFeeCap = o.GasFeeCap
    /\ d.GasLimit = o.GasLimit
    /\ RecipientOf(d, a) = RecipientOf(o, a)
    /\ d.Amount = o.Amount
    /\ Bytes(d.Payload) = Bytes(o.Payload)
    /\ d.AccessList = o.AccessList
    /\ d.V = o.V /\ d.R = o.R /\ d.S = o.S

\* C2: Equal is true exactly when every field except the cached hash (chain
\* id, nonce, tip cap, fee cap, gas limit, recipient, amount, payload, access
\* list in order, signature triple) is equal.
C2_EqualIffFieldsEqual ==
    op = "Equal" => ((eq = "true") <=> SameButHash(t, u, args))

----------------------------------------------------------------------------
(* ValidateSignature on every signature triple *)

\* The recovery values tried: the two recovery ids, legacy values, and values
\* at and above the width of a byte.
RecoveryValues == {0, 1, 2, 27, 28, ByteWidth - 1, ByteWidth, ByteWidth + 1}

InitSig ==
    /\ \E v \in RecoveryValues, r \in 0..secp256k1N, x \in 0..secp256k1N :
          t = [newTxInternalDataDynamicFee EXCEPT !.V = Ptr(v), !.R = Ptr(r), !.S = Ptr(x)]
    /\ ctor = "zeroed"
    /\ op = "caller"
    /\ values = EmptyMap /\ valuesIn = EmptyMap /\ built = TRUE
    /\ args = NoArgs /\ argsAtCall = NoArgs
    /\ InitIdle

DoValidateSignature ==
    /\ sigOk' = ValidateSignature(t)
    /\ op' = "ValidateSignature"
    /\ UNCHANGED <<instVars, err, mapVars, argVars, equalVars, jsonVars, execVars, chain>>

NextSig == DoValidateSignature

SpecSig == InitSig /\ [][NextSig]_vars

\* C6: ValidateSignature returns false for every triple with r = 0, s = 0, s
\* above the half order, or a V (the whole stored integer) that is no
\* recovery id.
C6_OutOfRangeIsInvalid ==
    (op = "ValidateSignature"
     /\ (Val(t.R) = 0 \/ Val(t.S) = 0 \/ Val(t.S) > secp256k1halfN
         \/ Val(t.V) \notin {0, 1}))
        => sigOk = "false"


----------------------------------------------------------------------------
(* newTxInternalDataDynamicFeeWithValues and the caller's buffers *)

InitValues ==
    /\ args \in ArgSets
    /\ argsAtCall = NoArgs
    /\ t = newEmptyTxInternalDataDynamicFee
    /\ ctor = "none"
    /\ op = "caller"
    /\ values = EmptyMap /\ valuesIn = EmptyMap /\ built = TRUE
    /\ InitIdle

\* The caller passes the values it holds.
CallWithValues ==
    /\ ctor = "none"
    /\ argsAtCall' = args
    /\ Constructed(newTxInternalDataDynamicFeeWithValues(args), "values")
    /\ op' = "newWithValues"
    /\ UNCHANGED <<args, mapVars, others, execVars>>

\* After the call the caller writes to what it passed: a byte of its data
\* slice, an entry of its access list, its amount, the address its recipient
\* pointer points at.
CallerWritesData ==
    /\ ctor = "values"
    /\ SliceLen(args.data) > 0
    /\ args' = [args EXCEPT !.data = Ptr([Val(args.data) EXCEPT ![1] = 255])]
    /\ op' = "callerWrites"
    /\ UNCHANGED <<instVars, err, argsAtCall, mapVars, others, execVars>>

CallerWritesAccessList ==
    /\ ctor = "values"
    /\ SliceLen(args.accessList) > 0
    /\ args' = [args EXCEPT
                  !.accessList = Ptr([Val(args.accessList) EXCEPT ![1] = AccessTuple(0, <<>>)])]
    /\ op' = "callerWrites"
    /\ UNCHANGED <<instVars, err, argsAtCall, mapVars, others, execVars>>

CallerWritesAmount ==
    /\ ctor = "values"
    /\ ~IsNil(args.amount)
    /\ args' = [args EXCEPT !.amount = Ptr(MaxBig)]
    /\ op' = "callerWrites"
    /\ UNCHANGED <<instVars, err, argsAtCall, mapVars, others, execVars>>

CallerWritesRecipient ==
    /\ ctor = "values"
    /\ ~IsNil(args.to)
    /\ \E a \in Addresses : args' = [args EXCEPT !.to = Ptr(a)]
    /\ op' = "callerWrites"
    /\ UNCHANGED <<instVars, err, argsAtCall, mapVars, others, execVars>>

NextValues ==
    \/ CallWithValues
    \/ CallerWritesData
    \/ CallerWritesAccessList
    \/ CallerWritesAmount
    \/ CallerWritesRecipient

SpecValues == InitValues /\ [][NextValues]_vars

\* A provided big integer is held by value.
HoldsBig(cell, arg) == ~IsNil(arg) => cell = arg

\* C7: the instance newTxInternalDataDynamicFeeWithValues returns holds a copy
\* of every value provided at the call (nonce, recipient, amount, gas limit,
\* tip cap, fee cap, payload, access list in order, chain id), whatever the
\* caller writes to its arguments afterwards.
C7_HoldsCopies ==
    ctor = "values" =>
        /\ t.AccountNonce = argsAtCall.nonce
        /\ RecipientOf(t, args) = argsAtCall.to
        /\ HoldsBig(t.Amount, argsAtCall.amount)
        /\ t.GasLimit = argsAtCall.gasLimit
        /\ HoldsBig(t.GasTipCap, argsAtCall.gasTipCap)
        /\ HoldsBig(t.GasFeeCap, argsAtCall.gasFeeCap)
        /\ Bytes(t.Payload) = Bytes(argsAtCall.data)
        /\ Bytes(t.AccessList) = Bytes(argsAtCall.accessList)
        /\ HoldsBig(t.ChainID, argsAtCall.chainID)

----------------------------------------------------------------------------
(* MarshalJSON and UnmarshalJSON of what it produced *)

\* The instances the constructors build, with and without a signature and a
\* cached hash.
Built ==
    {[c |-> "zeroed", t |-> newTxInternalDataDynamicFee, a |-> NoArgs]}
    \cup {[c |-> "values", t |-> newTxInternalDataDynamicFeeWithValues(a), a |-> a] :
             a \in SampleArgs}
    \cup {[c |-> "map", t |-> Val(newTxInternalDataDynamicFeeWithMap(m).inst), a |-> NoArgs] :
             m \in {x \in SampleMaps : newTxInternalDataDynamicFeeWithMap(x).err = ""}}

InitJSON ==
    /\ \E b \in Built, sigs \in {<<>>, <<Signature(0, 1, 1)>>, <<Signature(28, MaxBig, 3)>>},
          h \in {Nil} \cup {Ptr(x) : x \in Hashes} :
          /\ t = SetHash(IF Len(sigs) = 1 THEN SetSignature(b.t, sigs).t ELSE b.t, h)
          /\ ctor = b.c
          /\ args = b.a /\ argsAtCall = b.a
          /\ signed = (Len(sigs) = 1)
    /\ op = "caller"
    /\ err = ""
    /\ values = EmptyMap /\ valuesIn = EmptyMap /\ built = TRUE
    /\ u = newTxInternalDataDynamicFee /\ eq = "none"
    /\ sigOk = "none"
    /\ chain = NoChain
    /\ wire = NoDoc /\ orig = NoOrig
    /\ stateNonce = 0 /\ trace = <<>> /\ vmOut = NoOut /\ result = NoOut

DoMarshal ==
    /\ wire' = MarshalJSON(t, args)
    /\ orig' = [t |-> t, to |-> RecipientOf(t, args), ctor |-> ctor]
    /\ op' = "MarshalJSON"
    /\ err' = ""
    /\ UNCHANGED <<instVars, mapVars, argVars, equalVars, sigOk, execVars, chain>>

\* The document is decoded into the instance itself or into a fresh empty one.
DoUnmarshalWire ==
    /\ \E target \in {t, newEmptyTxInternalDataDynamicFee} :
          LET r == UnmarshalJSON(target, wire) IN
          /\ t' = r.t
          /\ err' = r.err
    /\ ctor' = "decoded"
    /\ signed' = FALSE
    /\ op' = "UnmarshalJSON"
    /\ UNCHANGED <<mapVars, argVars, equalVars, sigOk, jsonVars, execVars, chain>>

NextJSON ==
    \/ DoMarshal
    \/ DoUnmarshalWire

SpecJSON == InitJSON /\ [][NextJSON]_vars

\* C8: UnmarshalJSON of what MarshalJSON produced for an instance built by the
\* zeroed, explicit-values or map constructor, signed or not, with or without a
\* recipient, yields an instance with the same chain id, nonce, tip cap, fee
\* cap, gas limit, recipient, amount, payload, signature triple and hash, and
\* the access list's entries in the same order.
C8_JSONRoundTrip ==
    (op = "UnmarshalJSON" /\ orig.ctor \in {"zeroed", "values", "map"}) =>
        /\ err = ""
        /\ t.ChainID = orig.t.ChainID
        /\ t.AccountNonce = orig.t.AccountNonce
        /\ t.GasTipCap = orig.t.GasTipCap
        /\ t.GasFeeCap = orig.t.GasFeeCap
        /\ t.GasLimit = orig.t.GasLimit
        /\ RecipientOf(t, args) = orig.to
        /\ t.Amount = orig.t.Amount
        /\ Bytes(t.Payload) = Bytes(orig.t.Payload)
        /\ t.V = orig.t.V /\ t.R = orig.t.R /\ t.S = orig.t.S
        /\ t.Hash = orig.t.Hash
        /\ Bytes(t.AccessList) = Bytes(orig.t.AccessList)

\* A signed instance with a recipient, a two-entry access list, a two-digit
\* fee cap and a cached hash came back from its JSON.
C8_Witness ==
    /\ op = "UnmarshalJSON" /\ err = ""
    /\ orig.ctor = "map"
    /\ t.AccessList = Ptr(<<TupleB, TupleA>>)
    /\ t.GasFeeCap = Ptr(MaxBig) /\ t.GasTipCap = Ptr(1)
    /\ t.R = Ptr(MaxBig)
    /\ ~IsNil(t.Recipient)
    /\ t.Hash = Ptr(200)
    /\ t = orig.t


----------------------------------------------------------------------------
(* The claims about the life of one instance *)

IncNonces(tr) == {i \in 1..Len(tr) : tr[i].fn = "IncNonce"}
Calls(tr, fn) == {i \in 1..Len(tr) : tr[i].fn = fn}

\* C1: Execute on a transaction without recipient invokes the VM's Create with
\* the payload as init code and makes no nonce increment of its own; with a
\* recipient it increments the sender's nonce exactly once, before it invokes
\* the VM's Call; either way it returns the VM's output, gas used and error.
C1_ExecuteDispatch ==
    op = "Execute" =>
        /\ IsNil(RecipientOf(t, args)) =>
              /\ Cardinality(Calls(trace, "Create")) = 1
              /\ \A i \in Calls(trace, "Create") : trace[i].input = t.Payload
              /\ Calls(trace, "Call") = {}
              /\ IncNonces(trace) = {}
        /\ ~IsNil(RecipientOf(t, args)) =>
              /\ Cardinality(IncNonces(trace)) = 1
              /\ Cardinality(Calls(trace, "Call")) = 1
              /\ Calls(trace, "Create") = {}
              /\ \A i \in IncNonces(trace), j \in Calls(trace, "Call") :
                    i < j /\ trace[j].to = RecipientOf(t, args)
        /\ result.ret = vmOut.ret
        /\ result.usedGas = vmOut.usedGas
        /\ result.err = vmOut.err

\* Execute called the recipient of a transaction and the VM reverted.
C1_Witness ==
    /\ op = "Execute"
    /\ ~IsNil(RecipientOf(t, args))
    /\ Len(trace) = 2
    /\ result.err = "ErrExecutionReverted"
    /\ result.usedGas = MaxBig

\* C5: Validate returns the precompiled-contract-address error when the
\* recipient is present and a precompiled address, nil otherwise, and changes
\* neither the transaction nor the state.
C5_ValidateIsPure ==
    [][op' = "Validate" =>
          /\ err' = IF ~IsNil(RecipientOf(t, args))
                       /\ IsPrecompiledContractAddress(Val(RecipientOf(t, args)))
                    THEN "ErrPrecompiledContractAddress" ELSE ""
          /\ t' = t
          /\ args' = args
          /\ stateNonce' = stateNonce]_vars

\* Validate rejected a signed transaction to a precompiled address.
C5_Witness ==
    /\ op = "Validate"
    /\ err = "ErrPrecompiledContractAddress"
    /\ ~IsNil(RecipientOf(t, args))
    /\ signed

\* C9: whatever constructor built the instance and whatever SetSignature,
\* SetHash, setSignatureValues and UnmarshalJSON calls followed, its payload is
\* a non-nil byte sequence and its amount, fee cap, tip cap and chain id are
\* non-nil cells.
C9_CellsNeverNil ==
    /\ ~IsNil(t.Payload)
    /\ ~IsNil(t.Amount)
    /\ ~IsNil(t.GasFeeCap)
    /\ ~IsNil(t.GasTipCap)
    /\ ~IsNil(t.ChainID)

\* Every field outside F is the same in d and e.
SameExcept(d, e, F) == \A f \in Fields \ F : d[f] = e[f]

----------------------------------------------------------------------------
(* ChainId over instances from every constructor and from the decoder *)

\* Legacy recovery values: 27 and 28 carry no chain id, 37 and 38 carry 1.
LegacyValues == {27, 28, 37, 38}

\* Documents of a signed transaction, with and without the chainId key.
LegacyDocs ==
    {MarshalJSON([newTxInternalDataDynamicFee EXCEPT
                     !.ChainID = c, !.V = Ptr(v), !.R = Ptr(1), !.S = Ptr(1)],
                 NoArgs) :
        v \in LegacyValues, c \in {Nil, Ptr(1), Ptr(MaxBig)}}

\* A document is decoded into a fresh empty instance.
DecodeLegacy ==
    /\ Running
    /\ \E doc \in LegacyDocs :
          LET r == UnmarshalJSON(newEmptyTxInternalDataDynamicFee, doc) IN
          /\ wire' = doc
          /\ t' = r.t
          /\ err' = r.err
    /\ ctor' = "decoded"
    /\ signed' = FALSE
    /\ op' = "UnmarshalJSON"
    /\ ForgetArgs /\ ForgetExec
    /\ UNCHANGED <<mapVars, equalVars, sigOk, orig, chain>>

\* SetSignature with one triple whose V is a legacy recovery value.
SignLegacy ==
    /\ Running
    /\ \E v \in LegacyValues :
          LET r == SetSignature(t, <<Signature(v, 1, 1)>>) IN
          /\ t' = r.t
          /\ err' = r.err
    /\ signed' = TRUE
    /\ op' = "SetSignature"
    /\ ForgetExec
    /\ UNCHANGED <<ctor, mapVars, argVars, others>>

DoChainId ==
    /\ Running
    /\ chain' = ChainId(t)
    /\ err' = IF chain'.panic THEN "panic" ELSE ""
    /\ op' = "ChainId"
    /\ UNCHANGED <<instVars, mapVars, argVars, equalVars, sigOk, jsonVars, execVars>>

NextChain ==
    \/ NewEmpty
    \/ NewZeroed
    \/ NewWithValues
    \/ NewFromSampleMap
    \/ DecodeLegacy
    \/ SignLegacy
    \/ DoChainId

SpecChain == Init /\ [][NextChain]_vars

\* The chain id given when t was built: the constructor's chainID argument,
\* the map's chainID value, the document's chainId; Nil when none was given.
ExplicitChainID ==
    CASE ctor = "values" -> argsAtCall.chainID
      [] ctor = "map" -> valuesIn["chainID"].val
      [] ctor = "decoded" -> DecodeBigPtr(wire.chainId)
      [] OTHER -> Nil

\* C11: on an instance that carries a legacy recovery value V, ChainId returns
\* the chain id given at construction when one was given, and in every other
\* case the chain id derived from V by the legacy formula.
C11_ExplicitElseDerived ==
    (op = "ChainId" /\ ~(ctor = "map" /\ ~built)
     /\ ~IsNil(t.V) /\ Val(t.V) \in LegacyValues) =>
        IF ~IsNil(ExplicitChainID)
        THEN chain = ChainOut(TRUE, ExplicitChainID, FALSE)
        ELSE chain = ChainOut(TRUE, Ptr(deriveChainId(Val(t.V))), FALSE)


====
